---- MODULE Spec2Model ----
(***************************************************************************)
(* The exercise verification pipeline of src/exercise.rs: run_exercise and *)
(* run_solution, the cargo pipeline `run`, run_bin, run_circom and         *)
(* run_markdown with extract_question_and_answer.                          *)
(*                                                                         *)
(* The output buffer is a sequence of tokens; one token is one write.      *)
(* Strings that are trimmed, tested for emptiness or concatenated are      *)
(* sequences of one-character strings.                                     *)
(***************************************************************************)
EXTENDS Integers, Sequences, FiniteSets, TLC

VARIABLES
    exercise,      \* the Exercise: [name, ext, test, strict_clippy]
    output,        \* the caller's buffer, `output: &mut Vec<u8>`
    output0,       \* the buffer as it was when the top-level call started
    call,          \* the top-level call: "none", "run_exercise", "run_solution"
    pc,            \* position of the single thread of control
    bin_name,      \* `bin_name` of run
    dev,           \* `dev` of run
    test_success,  \* `test_success` of run
    ast,           \* the document tree run_markdown parsed
    qa,            \* (question, answer) of run_markdown
    user_input,    \* the line run_markdown read
    result,        \* what the top-level call returned
    trace          \* the stages started so far, in order

vars == <<exercise, output, output0, call, pc, bin_name, dev, test_success,
          ast, qa, user_input, result, trace>>

md_vars == <<ast, qa, user_input>>

-----------------------------------------------------------------------------
(* Bounds *)

\* longest buffer the caller passes in
MaxInit == 1
\* most lines one subprocess prints
MaxOut == 1
\* most top-level blocks of a question document
MaxBlocks == 3

-----------------------------------------------------------------------------
(* Values *)

RECURSIVE SeqsUpTo(_, _)
SeqsUpTo(S, n) ==
    IF n = 0 THEN {<<>>}
    ELSE LET shorter == SeqsUpTo(S, n - 1)
         IN shorter \cup {Append(s, x) : s \in {t \in shorter : Len(t) = n - 1}, x \in S}

Tok(k, s, v) == [k |-> k, s |-> s, v |-> v]

\* a byte the buffer held before the call
Old == Tok("old", "", <<>>)

Names == {"intro1"}
Exts == {"rs", "circom", "md", "txt"}
TargetDir == "target"

\* Result<bool>: Ok(true), Ok(false), Err(msg); a panic unwinds out of the call
NoResult == [tag |-> "none", val |-> FALSE, msg |-> ""]
Ok(b) == [tag |-> "Ok", val |-> b, msg |-> ""]
Err(m) == [tag |-> "Err", val |-> FALSE, msg |-> m]
Panic(m) == [tag |-> "panic", val |-> FALSE, msg |-> m]

\* what a subprocess does: whether it could be spawned, its exit code, the
\* lines it prints to stdout/stderr
ExitCodes == {0, 1}
LineKinds == {"line", "warning"}
NoSpawn == [spawned |-> FALSE, exit |-> -1, out |-> <<>>]
Outcomes ==
    {NoSpawn} \cup [spawned : {TRUE}, exit : ExitCodes, out : SeqsUpTo(LineKinds, MaxOut)]

NoCmd == [program |-> "", subcommand |-> "", args |-> <<>>, bin_name |-> "",
          hide_warnings |-> FALSE, dir |-> "", dev |-> FALSE]

Event(stage, cmd, oc, wrote, res) ==
    [stage |-> stage, cmd |-> cmd, spawned |-> oc.spawned, exit |-> oc.exit,
     out |-> oc.out, wrote |-> wrote, res |-> res]

-----------------------------------------------------------------------------
(* cmd.rs: run_cmd, CargoCmd, CircomCmd *)

RECURSIVE Captured(_, _, _)
Captured(src, out, hide_warnings) ==
    IF out = <<>> THEN <<>>
    ELSE IF hide_warnings /\ Head(out) = "warning"
         THEN Captured(src, Tail(out), hide_warnings)
         ELSE <<Tok(Head(out), src, <<>>)>> \o Captured(src, Tail(out), hide_warnings)

\* run_cmd: the captured output is appended; true iff exit code zero; a
\* process that cannot be spawned is an error and appends nothing
run_cmd(src, oc, hide_warnings) ==
    IF ~oc.spawned
    THEN [wrote |-> <<>>, res |-> Err("spawn")]
    ELSE [wrote |-> Captured(src, oc.out, hide_warnings), res |-> Ok(oc.exit = 0)]

\* CargoCmd::run: the description header, then run_cmd
CargoCmd_run(c, description, oc) ==
    LET r == run_cmd(c.subcommand, oc, c.hide_warnings)
    IN [wrote |-> <<Tok("header", description, <<>>)>> \o r.wrote, res |-> r.res]

\* CircomCmd::run: run_cmd
CircomCmd_run(c, oc) == run_cmd(c.subcommand, oc, c.hide_warnings)

-----------------------------------------------------------------------------
(* run_bin *)

OutputHeader == Tok("header", "Output", <<>>)
FailureBanner ==
    Tok("banner", "The exercise didn't run successfully (nonzero exit code)", <<>>)

bin_path(name) == <<TargetDir, "debug", name>>

BinCmd(name) ==
    [program |-> "bin", subcommand |-> "", args |-> <<>>, bin_name |-> name,
     hide_warnings |-> FALSE, dir |-> bin_path(name), dev |-> FALSE]

\* run_bin, but the banner is written when the binary succeeded
run_bin_BannerOnSuccess(name, oc) ==
    LET r == run_cmd("bin", oc, FALSE)
        head == <<OutputHeader>> \o r.wrote
    IN IF r.res.tag = "Err"
       THEN [wrote |-> head, res |-> r.res]
       ELSE [wrote |-> head \o (IF r.res.val THEN <<FailureBanner>> ELSE <<>>),
             res |-> Ok(r.res.val)]

\* run_bin, lines 20-45
run_bin(name, oc) ==
    LET r == run_cmd("bin", oc, FALSE)
        head == <<OutputHeader>> \o r.wrote
    IN IF r.res.tag = "Err"
       THEN [wrote |-> head, res |-> r.res]
       ELSE [wrote |-> head \o (IF ~r.res.val THEN <<FailureBanner>> ELSE <<>>),
             res |-> Ok(r.res.val)]

-----------------------------------------------------------------------------
(* RunnableExercise::run *)

is_rust(e) == e.ext = "rs"
is_circom(e) == e.ext = "circom"
is_md(e) == e.ext = "md"

CargoCmd(subcommand, args, hide_warnings) ==
    [program |-> "cargo", subcommand |-> subcommand, args |-> args,
     bin_name |-> bin_name, hide_warnings |-> hide_warnings, dir |-> TargetDir,
     dev |-> dev]

\* clippy_args, but the strict list drops `--profile test`
clippy_args_StrictOnlyDeny(strict) ==
    IF strict THEN <<"--", "-D", "warnings">>
    ELSE <<"--profile", "test">>

\* the clippy arguments, lines 120-124
clippy_args(strict) ==
    IF strict THEN <<"--profile", "test", "--", "-D", "warnings">>
    ELSE <<"--profile", "test">>

Return(r) ==
    /\ result' = r
    /\ pc' = "done"

\* run, lines 96-99: clear the buffer, read the dev flag
Run_Begin ==
    /\ pc = "run"
    /\ output' = <<>>
    /\ \E d \in BOOLEAN : dev' = d
    /\ pc' = "build"
    /\ UNCHANGED <<exercise, output0, call, bin_name, test_success, md_vars, result, trace>>

\* AfterBuild, but a failed build does not return
AfterBuild_NoShortCircuit(r) ==
    IF r.res.tag = "Err" THEN /\ output' = output \o r.wrote
                              /\ Return(r.res)
    ELSE /\ output' = <<>>
         /\ pc' = "lint"
         /\ UNCHANGED result

\* AfterBuild, but without the clear of line 117
AfterBuild_KeepOutput(r) ==
    IF r.res.tag = "Err" THEN /\ output' = output \o r.wrote
                              /\ Return(r.res)
    ELSE IF ~r.res.val THEN /\ output' = output \o r.wrote
                            /\ Return(Ok(FALSE))
    ELSE /\ output' = output \o r.wrote
         /\ pc' = "lint"
         /\ UNCHANGED result

\* what follows the build stage, lines 111-117
AfterBuild(r) ==
    IF r.res.tag = "Err" THEN /\ output' = output \o r.wrote
                              /\ Return(r.res)
    ELSE IF ~r.res.val THEN /\ output' = output \o r.wrote
                            /\ Return(Ok(FALSE))
    ELSE /\ output' = <<>>
         /\ pc' = "lint"
         /\ UNCHANGED result

\* run, lines 101-117: cargo build
Build ==
    /\ pc = "build"
    /\ \E oc \in Outcomes :
         LET c == CargoCmd("build", <<>>, FALSE)
             r == CargoCmd_run(c, "cargo build ...", oc)
         IN /\ trace' = Append(trace, Event("build", c, oc, r.wrote, r.res))
            /\ AfterBuild(r)
    /\ UNCHANGED <<exercise, output0, call, bin_name, dev, test_success, md_vars>>

\* AfterLint, but the test stage runs whatever the test flag says
AfterLint_AlwaysTest(r) ==
    IF r.res.tag = "Err" THEN Return(r.res)
    ELSE IF ~r.res.val THEN Return(Ok(FALSE))
    ELSE /\ pc' = "test"
         /\ UNCHANGED result

\* AfterLint, but a failed lint does not return
AfterLint_NoShortCircuit(r) ==
    IF r.res.tag = "Err" THEN Return(r.res)
    ELSE /\ pc' = (IF ~exercise.test THEN "run_bin" ELSE "test")
         /\ UNCHANGED result

\* what follows the lint stage, lines 135-142
AfterLint(r) ==
    IF r.res.tag = "Err" THEN Return(r.res)
    ELSE IF ~r.res.val THEN Return(Ok(FALSE))
    ELSE /\ pc' = (IF ~exercise.test THEN "run_bin" ELSE "test")
         /\ UNCHANGED result

\* run, lines 119-142: cargo clippy
Lint ==
    /\ pc = "lint"
    /\ \E oc \in Outcomes :
         LET c == CargoCmd("clippy", clippy_args(exercise.strict_clippy), FALSE)
             r == CargoCmd_run(c, "cargo clippy ...", oc)
         IN /\ trace' = Append(trace, Event("lint", c, oc, r.wrote, r.res))
            /\ output' = output \o r.wrote
            /\ AfterLint(r)
    /\ UNCHANGED <<exercise, output0, call, bin_name, dev, test_success, md_vars>>

\* AfterTest, but a failed test returns at once
AfterTest_StopOnFailure(r) ==
    IF r.res.tag = "Err" THEN /\ Return(r.res)
                              /\ UNCHANGED test_success
    ELSE IF ~r.res.val THEN /\ Return(Ok(FALSE))
                            /\ UNCHANGED test_success
    ELSE /\ test_success' = r.res.val
         /\ pc' = "run_bin"
         /\ UNCHANGED result

\* AfterTest, but a test that could not be spawned counts as a failed test
AfterTest_SpawnFailureAsFalse(r) ==
    /\ test_success' = (r.res.tag = "Ok" /\ r.res.val)
    /\ pc' = "run_bin"
    /\ UNCHANGED result

\* what follows the test stage, lines 155-157
AfterTest(r) ==
    IF r.res.tag = "Err" THEN /\ Return(r.res)
                              /\ UNCHANGED test_success
    ELSE /\ test_success' = r.res.val
         /\ pc' = "run_bin"
         /\ UNCHANGED result

\* run, lines 144-155: cargo test
Test ==
    /\ pc = "test"
    /\ \E oc \in Outcomes :
         LET c == CargoCmd("test", <<"--", "--color", "always", "--show-output">>, TRUE)
             r == CargoCmd_run(c, "cargo test ...", oc)
         IN /\ trace' = Append(trace, Event("test", c, oc, r.wrote, r.res))
            /\ output' = output \o r.wrote
            /\ AfterTest(r)
    /\ UNCHANGED <<exercise, output0, call, bin_name, dev, md_vars>>

\* RunVerdict, but the result of the test stage is dropped
RunVerdict_IgnoreTest(r) == r.res

\* the value run returns once run_bin returned r, lines 141 and 157-159
RunVerdict(r) ==
    IF ~exercise.test THEN r.res
    ELSE IF r.res.tag = "Err" THEN r.res
    ELSE Ok(test_success /\ r.res.val)

\* run, line 141 or lines 157-159: run_bin, then the verdict
RunBin ==
    /\ pc = "run_bin"
    /\ \E oc \in Outcomes :
         LET r == run_bin(bin_name, oc)
         IN /\ trace' = Append(trace, Event("run_bin", BinCmd(bin_name), oc, r.wrote, r.res))
            /\ output' = output \o r.wrote
            /\ Return(RunVerdict(r))
    /\ UNCHANGED <<exercise, output0, call, bin_name, dev, test_success, md_vars>>

-----------------------------------------------------------------------------
(* RunnableExercise::run_circom *)

CircomCmd ==
    [program |-> "circom", subcommand |-> "compile",
     args |-> <<"--r1cs", "--wasm", "--sym">>, bin_name |-> exercise.name,
     hide_warnings |-> FALSE, dir |-> "path/to/your/circom/circuits", dev |-> FALSE]

CompileHeader == Tok("header", "Compiling Circom circuit...", <<>>)
ProveHeader == Tok("header", "Generating proof...", <<>>)
VerifyHeader == Tok("header", "Verifying proof...", <<>>)

proof_success == TRUE
verify_success == TRUE

\* AfterCompile, but a failed compile does not return
AfterCompile_NoShortCircuit(r) ==
    IF r.res.tag = "Err" THEN [wrote |-> <<>>, stages |-> <<>>, res |-> r.res]
    ELSE [wrote |-> <<ProveHeader, VerifyHeader>>,
          stages |-> <<Event("prove", NoCmd, NoSpawn, <<ProveHeader>>, Ok(proof_success)),
                       Event("verify", NoCmd, NoSpawn, <<VerifyHeader>>, Ok(verify_success))>>,
          res |-> Ok(r.res.val /\ proof_success /\ verify_success)]

\* what follows the compile stage, lines 177-195
AfterCompile(r) ==
    IF r.res.tag = "Err" THEN [wrote |-> <<>>, stages |-> <<>>, res |-> r.res]
    ELSE IF ~r.res.val THEN [wrote |-> <<>>, stages |-> <<>>, res |-> Ok(FALSE)]
    ELSE [wrote |-> <<ProveHeader, VerifyHeader>>,
          stages |-> <<Event("prove", NoCmd, NoSpawn, <<ProveHeader>>, Ok(proof_success)),
                       Event("verify", NoCmd, NoSpawn, <<VerifyHeader>>, Ok(verify_success))>>,
          res |-> Ok(r.res.val /\ proof_success /\ verify_success)]

\* run_circom, lines 163-196
RunCircom ==
    /\ pc = "circom"
    /\ \E oc \in Outcomes :
         LET r == CircomCmd_run(CircomCmd, oc)
             wrote == <<CompileHeader>> \o r.wrote
             a == AfterCompile(r)
         IN /\ trace' = Append(trace, Event("compile", CircomCmd, oc, wrote, r.res)) \o a.stages
            /\ output' = output \o wrote \o a.wrote
            /\ Return(a.res)
    /\ UNCHANGED <<exercise, output0, call, bin_name, dev, test_success, md_vars>>

-----------------------------------------------------------------------------
(* RunnableExercise::extract_question_and_answer *)

Text(v) == [type |-> "text", value |-> v]
Emphasis(v) == [type |-> "emphasis", value |-> v]
Heading(d, children) == [type |-> "heading", depth |-> d, children |-> children, value |-> <<>>]
Paragraph(children) == [type |-> "paragraph", depth |-> 0, children |-> children, value |-> <<>>]
Code(v) == [type |-> "code", depth |-> 0, children |-> <<>>, value |-> v]
ThematicBreak == [type |-> "thematicBreak", depth |-> 0, children |-> <<>>, value |-> <<>>]
Root(children) == [type |-> "root", children |-> children]
NoAst == [type |-> "none", children |-> <<>>]

\* the inner loops, lines 232-236 and 239-243: push the value of every Text child
RECURSIVE push_text(_, _)
push_text(question, children) ==
    IF children = <<>> THEN question
    ELSE push_text(IF Head(children).type = "text"
                   THEN question \o Head(children).value ELSE question,
                   Tail(children))

\* walk, but without the break of line 247: the walk goes on after a code block
RECURSIVE walk_NoBreak(_, _, _)
walk_NoBreak(children, question, in_question) ==
    IF children = <<>> THEN [question |-> question, answer |-> <<>>]
    ELSE LET child == Head(children)
         IN IF child.type = "heading" /\ child.depth = 1
            THEN walk_NoBreak(Tail(children), push_text(question, child.children), TRUE)
            ELSE IF child.type = "paragraph" /\ in_question
            THEN walk_NoBreak(Tail(children), push_text(question, child.children), in_question)
            ELSE IF child.type = "code"
            THEN LET rest == walk_NoBreak(Tail(children), question, in_question)
                 IN [question |-> rest.question,
                     answer |-> IF \E i \in DOMAIN Tail(children) : Tail(children)[i].type = "code"
                                THEN rest.answer ELSE child.value]
            ELSE walk_NoBreak(Tail(children), question, in_question)

\* the loop over root.children, lines 228-251
RECURSIVE walk(_, _, _)
walk(children, question, in_question) ==
    IF children = <<>> THEN [question |-> question, answer |-> <<>>]
    ELSE LET child == Head(children)
         IN IF child.type = "heading" /\ child.depth = 1
            THEN walk(Tail(children), push_text(question, child.children), TRUE)
            ELSE IF child.type = "paragraph" /\ in_question
            THEN walk(Tail(children), push_text(question, child.children), in_question)
            ELSE IF child.type = "code"
            THEN [question |-> question, answer |-> child.value]
            ELSE walk(Tail(children), question, in_question)

ExtractError == "Failed to extract question or answer from markdown"

\* extract_question_and_answer, but failing only when both accumulators are empty
extract_question_and_answer_BothEmpty(tree) ==
    LET w == IF tree.type = "root" THEN walk(tree.children, <<>>, FALSE)
             ELSE [question |-> <<>>, answer |-> <<>>]
    IN IF w.question = <<>> /\ w.answer = <<>>
       THEN [res |-> Err(ExtractError), question |-> <<>>, answer |-> <<>>]
       ELSE [res |-> Ok(TRUE), question |-> w.question, answer |-> w.answer]

\* extract_question_and_answer, lines 222-259
extract_question_and_answer(tree) ==
    LET w == IF tree.type = "root" THEN walk(tree.children, <<>>, FALSE)
             ELSE [question |-> <<>>, answer |-> <<>>]
    IN IF w.question = <<>> \/ w.answer = <<>>
       THEN [res |-> Err(ExtractError), question |-> <<>>, answer |-> <<>>]
       ELSE [res |-> Ok(TRUE), question |-> w.question, answer |-> w.answer]

-----------------------------------------------------------------------------
(* RunnableExercise::run_markdown *)

White == {" ", "\n"}

RECURSIVE trim_start(_)
trim_start(s) ==
    IF s # <<>> /\ Head(s) \in White THEN trim_start(Tail(s)) ELSE s

RECURSIVE trim_end(_)
trim_end(s) ==
    IF s # <<>> /\ s[Len(s)] \in White THEN trim_end(SubSeq(s, 1, Len(s) - 1)) ELSE s

trim(s) == trim_end(trim_start(s))

\* the documents an exercise file can hold
Blocks ==
    { Heading(1, <<Text(<<"Q">>)>>),
      Heading(1, <<Emphasis(<<"e">>)>>),
      Heading(2, <<Text(<<"H">>)>>),
      Paragraph(<<Text(<<"m", "o", "r", "e">>)>>),
      Paragraph(<<Text(<<"a", " ">>), Emphasis(<<"e">>), Text(<<" ", "b">>)>>),
      Code(<<"4", "2">>),
      Code(<<" ", "4", "2", " ">>),
      Code(<<>>),
      ThematicBreak }
Docs == {Root(c) : c \in SeqsUpTo(Blocks, MaxBlocks)}

\* the lines the operator can type; the empty line is end of input
Inputs ==
    { <<"4", "2", "\n">>, <<" ", "4", "2", " ", "\n">>, <<"4", "3", "\n">>,
      <<"4", " ", "2", "\n">>, <<>> }

IoEvent(stage, wrote, res) == Event(stage, NoCmd, NoSpawn, wrote, res)

\* AfterExtract, but the question is written before the error is returned
AfterExtract_WritesFirst(e, flush_ok) ==
    IF e.res.tag = "Err"
    THEN /\ Return(e.res)
         /\ output' = output \o <<Tok("text", "", trim(e.question))>>
         /\ UNCHANGED qa
         /\ trace' = Append(trace, IoEvent("read_file", <<>>, e.res))
    ELSE LET wrote == <<Tok("text", "", trim(e.question))>>
         IN /\ qa' = <<e.question, e.answer>>
            /\ output' = output \o wrote
            /\ trace' = trace \o <<IoEvent("read_file", wrote, Ok(TRUE)),
                                   IoEvent("prompt", <<>>,
                                           IF flush_ok THEN Ok(TRUE) ELSE Err("io"))>>
            /\ IF flush_ok THEN pc' = "read_line" /\ UNCHANGED result
               ELSE Return(Err("io"))

\* what follows the extraction, lines 203-207
AfterExtract(e, flush_ok) ==
    IF e.res.tag = "Err"
    THEN /\ Return(e.res)
         /\ UNCHANGED <<output, qa>>
         /\ trace' = Append(trace, IoEvent("read_file", <<>>, e.res))
    ELSE LET wrote == <<Tok("text", "", trim(e.question))>>
         IN /\ qa' = <<e.question, e.answer>>
            /\ output' = output \o wrote
            /\ trace' = trace \o <<IoEvent("read_file", wrote, Ok(TRUE)),
                                   IoEvent("prompt", <<>>,
                                           IF flush_ok THEN Ok(TRUE) ELSE Err("io"))>>
            /\ IF flush_ok THEN pc' = "read_line" /\ UNCHANGED result
               ELSE Return(Err("io"))

\* what follows the parse, line 201: unwrap
AfterParse(parsed, tree, flush_ok) ==
    IF ~parsed
    THEN /\ Return(Panic("unwrap on Err"))
         /\ trace' = Append(trace, IoEvent("read_file", <<>>, Err("parse")))
         /\ UNCHANGED <<output, ast, qa>>
    ELSE /\ ast' = tree
         /\ AfterExtract(extract_question_and_answer(tree), flush_ok)

\* run_markdown, lines 199-207: read the file, parse it, extract, show the
\* question, prompt
RunMarkdown ==
    /\ pc = "markdown"
    /\ \/ /\ Return(Err("io"))
          /\ trace' = Append(trace, IoEvent("read_file", <<>>, Err("io")))
          /\ UNCHANGED <<output, ast, qa>>
       \/ AfterParse(FALSE, NoAst, TRUE)
       \/ \E tree \in Docs, flush_ok \in BOOLEAN :
            \* the flush of line 207 is reached only after a successful extraction
            /\ ~flush_ok => extract_question_and_answer(tree).res.tag = "Ok"
            /\ AfterParse(TRUE, tree, flush_ok)
    /\ UNCHANGED <<exercise, output0, call, bin_name, dev, test_success, user_input>>

\* Compare, but without trimming either side
Compare_Untrimmed(input, answer) ==
    LET success == input = answer
    IN [wrote |-> IF success THEN <<Tok("text", "Correct!", <<>>)>>
                  ELSE <<Tok("text", "Incorrect. The correct answer was: ", trim(answer))>>,
        res |-> Ok(success)]

\* the comparison and its message, lines 212-219
Compare(input, answer) ==
    LET success == trim(input) = trim(answer)
    IN [wrote |-> IF success THEN <<Tok("text", "Correct!", <<>>)>>
                  ELSE <<Tok("text", "Incorrect. The correct answer was: ", trim(answer))>>,
        res |-> Ok(success)]

\* run_markdown, lines 209-219: read one line, compare, report
ReadLine ==
    /\ pc = "read_line"
    /\ \/ /\ Return(Err("io"))
          /\ trace' = Append(trace, IoEvent("read_line", <<>>, Err("io")))
          /\ UNCHANGED <<output, user_input>>
       \/ \E input \in Inputs :
            LET c == Compare(input, qa[2])
            IN /\ user_input' = input
               /\ output' = output \o c.wrote
               /\ trace' = Append(trace, IoEvent("read_line", c.wrote, c.res))
               /\ Return(c.res)
    /\ UNCHANGED <<exercise, output0, call, bin_name, dev, test_success, ast, qa>>

-----------------------------------------------------------------------------
(* RunnableExercise::run_exercise and run_solution *)

\* Unsupported, but reported as a failed exercise
Unsupported_False == Return(Ok(FALSE))

\* the last branch of run_exercise, line 272
Unsupported == Return(Err("Unsupported exercise type"))

\* run_exercise, lines 264-274
RunExercise ==
    /\ pc = "idle"
    /\ call' = "run_exercise"
    /\ IF is_rust(exercise)
       THEN bin_name' = exercise.name /\ pc' = "run" /\ UNCHANGED result
       ELSE IF is_circom(exercise)
       THEN pc' = "circom" /\ UNCHANGED <<bin_name, result>>
       ELSE IF is_md(exercise)
       THEN pc' = "markdown" /\ UNCHANGED <<bin_name, result>>
       ELSE Unsupported /\ UNCHANGED bin_name
    /\ UNCHANGED <<exercise, output, output0, dev, test_success, md_vars, trace>>

\* RunSolution, but dispatching on the kind of the exercise as run_exercise does
RunSolution_Dispatching ==
    /\ pc = "idle"
    /\ call' = "run_solution"
    /\ bin_name' = exercise.name \o "_sol"
    /\ IF is_rust(exercise) THEN pc' = "run" /\ UNCHANGED result
       ELSE IF is_circom(exercise) THEN pc' = "circom" /\ UNCHANGED result
       ELSE IF is_md(exercise) THEN pc' = "markdown" /\ UNCHANGED result
       ELSE Return(Err("Unsupported exercise type"))
    /\ UNCHANGED <<exercise, output, output0, dev, test_success, md_vars, trace>>

\* RunSolution, but the binary name is not suffixed
RunSolution_NoSuffix ==
    /\ pc = "idle"
    /\ call' = "run_solution"
    /\ bin_name' = exercise.name
    /\ pc' = "run"
    /\ UNCHANGED <<exercise, output, output0, dev, test_success, md_vars, result, trace>>

\* run_solution, lines 278-285
RunSolution ==
    /\ pc = "idle"
    /\ call' = "run_solution"
    /\ bin_name' = exercise.name \o "_sol"
    /\ pc' = "run"
    /\ UNCHANGED <<exercise, output, output0, dev, test_success, md_vars, result, trace>>

-----------------------------------------------------------------------------

Init ==
    /\ exercise \in [name : Names, ext : Exts, test : BOOLEAN, strict_clippy : BOOLEAN]
    /\ output \in SeqsUpTo({Old}, MaxInit)
    /\ output0 = output
    /\ call = "none"
    /\ pc = "idle"
    /\ bin_name = ""
    /\ dev = FALSE
    /\ test_success = FALSE
    /\ ast = NoAst
    /\ qa = <<<<>>, <<>>>>
    /\ user_input = <<>>
    /\ result = NoResult
    /\ trace = <<>>

Next ==
    \/ RunExercise
    \/ RunSolution
    \/ Run_Begin
    \/ Build
    \/ Lint
    \/ Test
    \/ RunBin
    \/ RunCircom
    \/ RunMarkdown
    \/ ReadLine

Spec == Init /\ [][Next]_vars

-----------------------------------------------------------------------------
(* Properties *)

Done == pc = "done"
Range(s) == {s[i] : i \in DOMAIN s}
Holds(tok) == tok \in Range(output)
StageOrder == [i \in DOMAIN trace |-> trace[i].stage]
Started(s) == \E i \in DOMAIN trace : trace[i].stage = s
EventOf(s) == trace[CHOOSE i \in DOMAIN trace : trace[i].stage = s]
\* the stage's process was spawned and ran to its exit
Ran(s) == Started(s) /\ EventOf(s).spawned
Succeeded(s) == Ran(s) /\ EventOf(s).exit = 0
Failed(s) == Ran(s) /\ EventOf(s).exit # 0
\* the call went into the cargo pipeline `run`
InRun == call = "run_solution" \/ (call = "run_exercise" /\ is_rust(exercise))

\* the lines a process printed, as they appear in the buffer
RECURSIVE Lines(_, _)
Lines(src, out) ==
    IF out = <<>> THEN <<>> ELSE <<Tok(Head(out), src, <<>>)>> \o Lines(src, Tail(out))
NotWarning(t) == t.k # "warning"
BuildTranscript ==
    <<Tok("header", "cargo build ...", <<>>)>> \o Lines("build", EventOf("build").out)
LintTranscript ==
    <<Tok("header", "cargo clippy ...", <<>>)>> \o Lines("clippy", EventOf("lint").out)
TestTranscript ==
    <<Tok("header", "cargo test ...", <<>>)>>
        \o SelectSeq(Lines("test", EventOf("test").out), NotWarning)
RunTranscript ==
    <<OutputHeader>> \o Lines("bin", EventOf("run_bin").out)
        \o (IF Failed("run_bin") THEN <<FailureBanner>> ELSE <<>>)

\* C1: in the cargo pipeline, once Build ran and reported failure the call has
\* returned false, Build is the only stage that was started, and the buffer
\* is exactly the build header followed by the build's output.
C1_BuildFailureReturnsBuildOutput ==
    (InRun /\ Failed("build")) =>
        /\ Done
        /\ result = Ok(FALSE)
        /\ StageOrder = <<"build">>
        /\ output = BuildTranscript

C1_Witness ==
    /\ InRun /\ Failed("build") /\ Done
    /\ output0 # <<>>
    /\ EventOf("build").out # <<>>

\* C2: when a top-level call has returned a verdict, none of the bytes the
\* buffer held at the start of the call is still in it.
C2_EveryRunClearsBuffer ==
    (Done /\ result.tag = "Ok") => ~Holds(Old)

\* C3: with the test flag set, once the Test stage ran to its exit the only
\* thing left is the Run-binary sub-step; at return the stages were Build,
\* Lint, Test, Run-binary, the verdict is (Test succeeded and Run succeeded),
\* and the buffer is the Lint output, the Test transcript and then the
\* Run-binary transcript.
C3_RunBinFollowsTest ==
    (InRun /\ exercise.test /\ Ran("test")) =>
        /\ pc \in {"run_bin", "done"}
        /\ Done =>
             /\ StageOrder = <<"build", "lint", "test", "run_bin">>
             /\ Ran("run_bin") => result = Ok(Succeeded("test") /\ Succeeded("run_bin"))
             /\ output = LintTranscript \o TestTranscript \o RunTranscript

C3_Witness ==
    /\ InRun /\ exercise.test /\ Done
    /\ Failed("test") /\ Succeeded("run_bin")
    /\ result = Ok(FALSE)
    /\ EventOf("test").out # <<>>

\* C4: with the test flag clear the Test stage is never started; once Lint
\* succeeded only the Run-binary sub-step is left and the call returns what
\* it returned.
C4_NoTestStageWithoutTestFlag ==
    (InRun /\ ~exercise.test) =>
        /\ ~Started("test")
        /\ pc # "test"
        /\ Succeeded("lint") =>
             /\ pc \in {"run_bin", "done"}
             /\ Done =>
                  /\ StageOrder = <<"build", "lint", "run_bin">>
                  /\ result = EventOf("run_bin").res
                  /\ Ran("run_bin") => result = Ok(Succeeded("run_bin"))

C4_Witness ==
    /\ InRun /\ ~exercise.test /\ Done
    /\ Succeeded("lint") /\ Failed("run_bin")
    /\ result = Ok(FALSE)

\* C5: once Build succeeded and Lint ran and reported failure the call has
\* returned false, neither Test nor Run-binary was started, and the buffer
\* is exactly the Lint transcript: nothing the Build stage wrote is in it.
C5_LintFailureDiscardsBuildOutput ==
    (InRun /\ Succeeded("build") /\ Failed("lint")) =>
        /\ Done
        /\ result = Ok(FALSE)
        /\ StageOrder = <<"build", "lint">>
        /\ output = LintTranscript
        /\ Range(output) \cap Range(EventOf("build").wrote) = {}

C5_Witness ==
    /\ InRun /\ Succeeded("build") /\ Failed("lint") /\ Done
    /\ EventOf("build").out # <<>>
    /\ EventOf("lint").out # <<>>

\* C6: when run_bin spawned the binary, what it appended is the Output
\* header, then the binary's output, then the failure banner exactly when
\* the exit code was nonzero; it returned true exactly when it appended no
\* banner; and the buffer ends with what it appended.
C6_BannerIffNonzeroExit ==
    Ran("run_bin") =>
        LET e == EventOf("run_bin")
            n == Len(e.wrote)
        IN /\ (FailureBanner \in Range(e.wrote)) <=> (e.exit # 0)
           /\ e.wrote[1] = OutputHeader
           /\ \A i \in DOMAIN e.out : e.wrote[i + 1] = Tok(e.out[i], "bin", <<>>)
           /\ n = 1 + Len(e.out) + (IF e.exit # 0 THEN 1 ELSE 0)
           /\ e.exit # 0 => e.wrote[n] = FailureBanner
           /\ e.res = Ok(FailureBanner \notin Range(e.wrote))
           /\ Len(output) >= n
           /\ SubSeq(output, Len(output) - n + 1, Len(output)) = e.wrote

C6_Witness ==
    /\ Failed("run_bin")
    /\ EventOf("run_bin").out # <<>>
    /\ Holds(FailureBanner)

\* C7: in the cargo pipeline a stage that could not be spawned is the last
\* stage started, and the call has returned an error, not a verdict.
C7_SpawnFailureIsPropagated ==
    InRun =>
        \A i \in DOMAIN trace :
            ~trace[i].spawned =>
                /\ i = Len(trace)
                /\ Done
                /\ result.tag = "Err"

C7_Witness ==
    /\ InRun /\ Done
    /\ Started("test") /\ ~Ran("test")
    /\ ~Started("run_bin")
    /\ result.tag = "Err"

\* C8: run_exercise on an extension other than rs, circom and md has
\* returned the error "Unsupported exercise type"; no stage was started, no
\* line was read and the buffer is as it was.
C8_UnsupportedKindIsAnError ==
    (call = "run_exercise" /\ exercise.ext \notin {"rs", "circom", "md"}) =>
        /\ Done
        /\ result = Err("Unsupported exercise type")
        /\ trace = <<>>
        /\ output = output0
        /\ user_input = <<>>

C8_Witness ==
    /\ call = "run_exercise" /\ exercise.ext = "txt" /\ Done
    /\ output0 # <<>>

C10_CircomVerdictIsCompileResult ==
    (call = "run_exercise" /\ is_circom(exercise) /\ Done) =>
        /\ trace[1].stage = "compile"
        /\ Holds(CompileHeader)
        /\ Failed("compile") =>
             /\ result = Ok(FALSE)
             /\ StageOrder = <<"compile">>
             /\ ~Holds(ProveHeader) /\ ~Holds(VerifyHeader)
        /\ Succeeded("compile") =>
             /\ result = Ok(TRUE)
             /\ StageOrder = <<"compile", "prove", "verify">>
             /\ Len(output) >= 3
             /\ SubSeq(output, Len(output) - 1, Len(output)) = <<ProveHeader, VerifyHeader>>
        /\ result.tag = "Ok" => (Ran("compile") /\ result.val = Succeeded("compile"))

C10_Witness ==
    /\ call = "run_exercise" /\ is_circom(exercise) /\ Done
    /\ Failed("compile")
    /\ EventOf("compile").out # <<>>


-----------------------------------------------------------------------------
(* Properties of the question document *)

\* the run is run_exercise on a question document
InMarkdown == call = "run_exercise" /\ is_md(exercise)
\* the document was parsed and the extraction returned a pair
Extracted == InMarkdown /\ Started("read_file") /\ EventOf("read_file").res.tag = "Ok"
\* the document was parsed and the extraction returned its error
ExtractFailed == InMarkdown /\ Started("read_file") /\ EventOf("read_file").res = Err(ExtractError)

\* position of the first code block, 0 when there is none
FirstCode(blocks) ==
    IF \E i \in DOMAIN blocks : blocks[i].type = "code"
    THEN CHOOSE i \in DOMAIN blocks :
             /\ blocks[i].type = "code"
             /\ \A j \in 1..(i - 1) : blocks[j].type # "code"
    ELSE 0
IsH1(b) == b.type = "heading" /\ b.depth = 1
FirstH1(blocks) ==
    IF \E i \in DOMAIN blocks : IsH1(blocks[i])
    THEN CHOOSE i \in DOMAIN blocks :
             /\ IsH1(blocks[i])
             /\ \A j \in 1..(i - 1) : ~IsH1(blocks[j])
    ELSE 0
\* block i adds its text runs to the question
Contributes(blocks, i) ==
    /\ FirstCode(blocks) = 0 \/ i < FirstCode(blocks)
    /\ \/ IsH1(blocks[i])
       \/ blocks[i].type = "paragraph" /\ FirstH1(blocks) # 0 /\ i > FirstH1(blocks)
\* the text runs among the first n inline nodes, concatenated
RECURSIVE TextRuns(_, _)
TextRuns(inlines, n) ==
    IF n = 0 THEN <<>>
    ELSE TextRuns(inlines, n - 1)
             \o (IF inlines[n].type = "text" THEN inlines[n].value ELSE <<>>)
\* the text of the contributing blocks among the first n blocks, concatenated
RECURSIVE QuestionUpTo(_, _)
QuestionUpTo(blocks, n) ==
    IF n = 0 THEN <<>>
    ELSE QuestionUpTo(blocks, n - 1)
             \o (IF Contributes(blocks, n)
                 THEN TextRuns(blocks[n].children, Len(blocks[n].children)) ELSE <<>>)
DocQuestion(blocks) == QuestionUpTo(blocks, Len(blocks))
DocAnswer(blocks) == IF FirstCode(blocks) = 0 THEN <<>> ELSE blocks[FirstCode(blocks)].value

ExampleDoc ==
    <<Heading(1, <<Text(<<"Q">>)>>), Paragraph(<<Text(<<"m", "o", "r", "e">>)>>),
      Code(<<"4", "2">>)>>

\* C11: a successful extraction returns as answer the content of the first
\* code block of the document and as question the text runs, in document
\* order, of the level-1 headings and of the paragraphs after the first
\* level-1 heading that come before that code block; heading "Q", paragraph
\* "more", code "42" gives ("Qmore", "42").
C11_ExtractionResult ==
    Extracted =>
        /\ qa[2] = DocAnswer(ast.children)
        /\ qa[1] = DocQuestion(ast.children)
        /\ ast.children = ExampleDoc => qa = << <<"Q", "m", "o", "r", "e">>, <<"4", "2">> >>

C11_Witness ==
    /\ Extracted
    /\ ast.children = ExampleDoc
    /\ qa = << <<"Q", "m", "o", "r", "e">>, <<"4", "2">> >>


\* the text runs of block b, concatenated
BlockText(b) == TextRuns(b.children, Len(b.children))

\* C12 as stated: the extraction returns its error exactly when the document
\* yields an empty question or an empty answer, and a returned pair has
\* neither empty; a document without a code block fails, and so does one
\* with a code block but no level-1 heading text before it.
C12_FailsWithoutHeadingText ==
    (InMarkdown /\ Started("read_file") /\ ast.type = "root") =>
        LET blocks == ast.children
        IN /\ ExtractFailed <=> (DocQuestion(blocks) = <<>> \/ DocAnswer(blocks) = <<>>)
           /\ Extracted => (qa[1] # <<>> /\ qa[2] # <<>>)
           /\ FirstCode(blocks) = 0 => ExtractFailed
           /\ ( /\ FirstCode(blocks) # 0
                /\ \A i \in 1..(FirstCode(blocks) - 1) :
                       ~(IsH1(blocks[i]) /\ BlockText(blocks[i]) # <<>>) )
                 => ExtractFailed

\* C12, amended: the extraction returns its error exactly when the document
\* yields an empty question or an empty answer, and a returned pair has
\* neither empty; a document without a code block fails, and so does one
\* with a code block but no level-1 heading before it.
C12_ExtractionFailsIffEmpty ==
    (InMarkdown /\ Started("read_file") /\ ast.type = "root") =>
        LET blocks == ast.children
        IN /\ ExtractFailed <=> (DocQuestion(blocks) = <<>> \/ DocAnswer(blocks) = <<>>)
           /\ ~ExtractFailed => Extracted
           /\ Extracted => (qa[1] # <<>> /\ qa[2] # <<>>)
           /\ FirstCode(blocks) = 0 => ExtractFailed
           /\ ( /\ FirstCode(blocks) # 0
                /\ \A i \in 1..(FirstCode(blocks) - 1) : ~IsH1(blocks[i]) )
                 => ExtractFailed

C12_Witness ==
    /\ ExtractFailed
    /\ ast.children = <<Paragraph(<<Text(<<"m", "o", "r", "e">>)>>), Code(<<"4", "2">>)>>
    /\ result = Err(ExtractError)

\* t is s without its leading and trailing whitespace
IsTrimOf(t, s) ==
    \E i \in 1..(Len(s) + 1), j \in 0..Len(s) :
        /\ t = SubSeq(s, i, j)
        /\ \A k \in 1..(i - 1) : s[k] \in White
        /\ \A k \in (j + 1)..Len(s) : s[k] \in White
        /\ t # <<>> => (t[1] \notin White /\ t[Len(t)] \notin White)

\* C13: after a successful extraction the buffer holds, after what it held
\* at entry, the trimmed question before a line is read; once a line was
\* read the result is true exactly when the trimmed line equals the trimmed
\* answer, and the buffer then ends with the "correct" message, or with the
\* "incorrect" message carrying the trimmed answer.
C13_InteractiveCompare ==
    Extracted =>
        \E tq \in {trim(qa[1])}, ta \in {trim(qa[2])} :
            /\ IsTrimOf(tq, qa[1])
            /\ IsTrimOf(ta, qa[2])
            /\ pc = "read_line" => output = output0 \o <<Tok("text", "", tq)>>
            /\ (Started("read_line") /\ EventOf("read_line").res.tag = "Ok") =>
                 \E ti \in {trim(user_input)} :
                     /\ IsTrimOf(ti, user_input)
                     /\ Done
                     /\ result = Ok(ti = ta)
                     /\ ti = ta =>
                          output = output0 \o <<Tok("text", "", tq), Tok("text", "Correct!", <<>>)>>
                     /\ ti # ta =>
                          output = output0 \o <<Tok("text", "", tq),
                                                Tok("text", "Incorrect. The correct answer was: ", ta)>>

C13_Witness ==
    /\ Extracted /\ Done
    /\ qa[2] = <<" ", "4", "2", " ">>
    /\ user_input = <<"4", "2", "\n">>
    /\ result = Ok(TRUE)
    /\ output0 # <<>>


-----------------------------------------------------------------------------
(* Properties of the cargo pipeline as a whole *)

\* the stage that follows the stages of t, given how they ended
NextStage(t) ==
    IF t = <<>> THEN "build"
    ELSE LET e == t[Len(t)]
             ok == e.spawned /\ e.exit = 0
         IN CASE e.stage = "build" -> IF ok THEN "lint" ELSE "return"
              [] e.stage = "lint" ->
                    IF ~ok THEN "return" ELSE IF exercise.test THEN "test" ELSE "run_bin"
              [] e.stage = "test" -> IF e.spawned THEN "run_bin" ELSE "return"
              [] OTHER -> "return"

\* the command of a stage, scoped to the binary b
StageCmd(stage, b) ==
    CASE stage = "build" ->
            [program |-> "cargo", subcommand |-> "build", args |-> <<>>, bin_name |-> b,
             hide_warnings |-> FALSE, dir |-> "target", dev |-> dev]
      [] stage = "lint" ->
            [program |-> "cargo", subcommand |-> "clippy",
             args |-> IF exercise.strict_clippy
                      THEN <<"--profile", "test", "--", "-D", "warnings">>
                      ELSE <<"--profile", "test">>,
             bin_name |-> b, hide_warnings |-> FALSE, dir |-> "target", dev |-> dev]
      [] stage = "test" ->
            [program |-> "cargo", subcommand |-> "test",
             args |-> <<"--", "--color", "always", "--show-output">>,
             bin_name |-> b, hide_warnings |-> TRUE, dir |-> "target", dev |-> dev]
      [] OTHER ->
            [program |-> "bin", subcommand |-> "", args |-> <<>>, bin_name |-> b,
             hide_warnings |-> FALSE, dir |-> <<"target", "debug", b>>, dev |-> FALSE]

\* what a stage that ended as e did appends to the buffer
StageTranscript(e) ==
    CASE e.stage = "build" ->
            <<Tok("header", "cargo build ...", <<>>)>> \o Lines("build", e.out)
      [] e.stage = "lint" ->
            <<Tok("header", "cargo clippy ...", <<>>)>> \o Lines("clippy", e.out)
      [] e.stage = "test" ->
            <<Tok("header", "cargo test ...", <<>>)>>
                \o SelectSeq(Lines("test", e.out), NotWarning)
      [] OTHER ->
            <<OutputHeader>> \o Lines("bin", e.out)
                \o (IF e.spawned /\ e.exit # 0 THEN <<FailureBanner>> ELSE <<>>)

\* the transcripts of the stages from position i of the trace on
RECURSIVE TranscriptFrom(_)
TranscriptFrom(i) ==
    IF i > Len(trace) THEN <<>> ELSE StageTranscript(trace[i]) \o TranscriptFrom(i + 1)

\* the value the pipeline returns after the stages of the trace
PipelineVerdict ==
    LET e == trace[Len(trace)]
    IN IF ~e.spawned THEN Err("spawn")
       ELSE IF e.stage \in {"build", "lint"} THEN Ok(FALSE)
       ELSE IF exercise.test THEN Ok(Succeeded("test") /\ e.exit = 0)
       ELSE Ok(e.exit = 0)

\* the cargo pipeline on the binary b: its stages, their commands, the
\* buffer and the verdict, as determined by how the stages ended
PipelineOn(b) ==
    /\ bin_name = b
    /\ pc \in {"run", "build", "lint", "test", "run_bin", "done"}
    /\ pc = "run" => trace = <<>>
    /\ pc # "run" => pc = (IF NextStage(trace) = "return" THEN "done" ELSE NextStage(trace))
    /\ \A i \in DOMAIN trace :
           /\ trace[i].stage = NextStage(SubSeq(trace, 1, i - 1))
           /\ trace[i].cmd = StageCmd(trace[i].stage, b)
    /\ pc \in {"build", "lint"} => output = <<>>
    /\ pc \in {"test", "run_bin", "done"} =>
           output = (IF Len(trace) = 1 THEN TranscriptFrom(1) ELSE TranscriptFrom(2))
    /\ Done <=> result # NoResult
    /\ Done => result = PipelineVerdict

\* C14: run_solution is the pipeline of run_exercise on a compiled-source
\* exercise, stage for stage, with the same arguments, clears and verdict
\* rule, on the binary `<name>_sol` instead of `<name>`.
C14_SolutionIsSamePipeline ==
    /\ call = "run_solution" => PipelineOn(exercise.name \o "_sol")
    /\ (call = "run_exercise" /\ is_rust(exercise)) => PipelineOn(exercise.name)

C14_Witness ==
    /\ call = "run_solution" /\ Done
    /\ exercise.test
    /\ result = Ok(TRUE)
    /\ StageOrder = <<"build", "lint", "test", "run_bin">>
    /\ \A i \in DOMAIN trace : trace[i].cmd.bin_name = "intro1_sol"


IsPrefix(s, t) == Len(s) <= Len(t) /\ SubSeq(t, 1, Len(s)) = s

\* C15: the argument list the Lint stage was started with is, when
\* strict_clippy is true, the list used when it is false (`--profile test`)
\* followed by `-- -D warnings`; when strict_clippy is false it is
\* `--profile test` and holds no `-D`.
C15_StrictLintArgsExtendNonStrict ==
    Started("lint") =>
        LET used == EventOf("lint").cmd.args
            other == clippy_args(~exercise.strict_clippy)
            strict == IF exercise.strict_clippy THEN used ELSE other
            lax == IF exercise.strict_clippy THEN other ELSE used
        IN /\ lax = <<"--profile", "test">>
           /\ IsPrefix(lax, strict)
           /\ SubSeq(strict, Len(lax) + 1, Len(strict)) = <<"--", "-D", "warnings">>
           /\ "-D" \notin Range(lax)

C15_Witness ==
    /\ Started("lint")
    /\ exercise.strict_clippy
    /\ EventOf("lint").cmd.args = <<"--profile", "test", "--", "-D", "warnings">>

\* the first part of C16: the stages of the cargo pipeline start in the order Build, Lint,
\* Test (only with the test flag), Run-binary, each at most once; a stage
\* starts only after the stage before it has ended; and no stage starts
\* after Build or Lint reported failure.
C16_OrderedTrace ==
    InRun =>
        /\ IsPrefix(StageOrder, IF exercise.test THEN <<"build", "lint", "test", "run_bin">>
                                ELSE <<"build", "lint", "run_bin">>)
        /\ \A i, j \in DOMAIN trace : trace[i].stage = trace[j].stage => i = j
        /\ \A i \in DOMAIN trace :
               (trace[i].stage \in {"build", "lint"} /\ ~(trace[i].spawned /\ trace[i].exit = 0))
                   => i = Len(trace)
        /\ \A i \in DOMAIN trace : i < Len(trace) => trace[i].res.tag = "Ok"

\* the second part of C16: a step starts at most one stage, and only the
\* stage of the position the pipeline is in, which is where the stage
\* before it left the pipeline when it ended
C16_StartsWhereItBelongs ==
    [][(InRun' /\ Len(trace') > Len(trace)) =>
          /\ Len(trace') = Len(trace) + 1
          /\ pc = trace'[Len(trace')].stage
          /\ pc' # pc]_vars

\* C16: in every execution of the cargo pipeline the stages start in the
\* fixed order Build, Lint, Test (only when required), Run-binary, each at
\* most once, none before the previous one has ended and none after Build
\* or Lint reported failure.
C16_StageOrder == []C16_OrderedTrace /\ C16_StartsWhereItBelongs

C16_Witness ==
    /\ InRun /\ Done
    /\ StageOrder = <<"build", "lint", "test", "run_bin">>
    /\ Failed("test")


-----------------------------------------------------------------------------
(* Termination *)

\* every step of a call is taken once it can be: a stage returns when its
\* subprocess has exited or its line was read
FairSpec == Spec /\ WF_vars(Next)

\* every call returns
Terminates == <>Done

\* once a call has returned nothing changes any more
StaysDone == [][Done => UNCHANGED vars]_vars

C18_VerdictTrueIffAllStagesSucceeded ==
    (InRun /\ Done) =>
        /\ result = Ok(TRUE) <=>
               /\ Succeeded("build")
               /\ Succeeded("lint")
               /\ exercise.test => Succeeded("test")
               /\ Succeeded("run_bin")
        /\ result = Ok(TRUE) => (Holds(OutputHeader) /\ ~Holds(FailureBanner))
        /\ ~exercise.test => ~Started("test")

C18_Witness ==
    /\ InRun /\ Done
    /\ exercise.test
    /\ Succeeded("build") /\ Succeeded("lint") /\ Succeeded("test") /\ Succeeded("run_bin")
    /\ result = Ok(TRUE)
    /\ Holds(OutputHeader) /\ ~Holds(FailureBanner)
    /\ EventOf("run_bin").out # <<>>

PipelineStages == {"build", "lint", "test", "run_bin"}

\* C19: run_solution on an exercise of any extension is in the cargo
\* pipeline on `<name>_sol`: it starts cargo pipeline stages only, never
\* reads or parses a document, never compiles a circuit and never returns
\* "Unsupported exercise type".
C19_SolutionDoesNotDispatch ==
    call = "run_solution" =>
        /\ pc \in {"run", "build", "lint", "test", "run_bin", "done"}
        /\ bin_name = exercise.name \o "_sol"
        /\ \A i \in DOMAIN trace :
               /\ trace[i].stage \in PipelineStages
               /\ trace[i].cmd.bin_name = exercise.name \o "_sol"
        /\ (Done /\ trace # <<>>) => trace[1].stage = "build"
        /\ Done => trace # <<>>
        /\ result # Err("Unsupported exercise type")
        /\ ast = NoAst /\ user_input = <<>>

C19_Witness ==
    /\ call = "run_solution" /\ Done
    /\ exercise.ext = "txt"
    /\ result = Ok(TRUE)

\* C20: when the extraction of a question document failed the call has
\* returned the extraction error, the buffer is what it was at entry, and
\* neither the prompt was written nor a line read.
C20_FailedExtractionLeavesBuffer ==
    ExtractFailed =>
        /\ Done
        /\ result = Err(ExtractError)
        /\ output = output0
        /\ ~Started("prompt")
        /\ ~Started("read_line")
        /\ user_input = <<>>
        /\ Len(trace) = 1

C20_Witness ==
    /\ ExtractFailed /\ Done
    /\ output0 # <<>>
    /\ ast.children = <<Heading(1, <<Text(<<"Q">>)>>), Paragraph(<<Text(<<"m", "o", "r", "e">>)>>)>>

====
